---- MODULE Spec2Model ----
(***************************************************************************)
(* ImpactorViz: population exposure (src/src/exposure.py), impact physics  *)
(* (src/src/impact.py) and the ballistic / deflection model                *)
(* (src/src/orbital.py).                                                   *)
(*                                                                         *)
(* The functions are pure; the state is the raster handle opened once and  *)
(* the last call made on the public surface (its arguments, its result and *)
(* the intermediate values the code computes on the way).                  *)
(*                                                                         *)
(* Floating point is modelled in fixed point:                              *)
(*   - angles in degrees are integers in units of 1/UnitsPerDeg degree,    *)
(*   - radians and values of sin/cos/sqrt/arcsin are integers scaled by    *)
(*     Scale (resolution 1e-4),                                            *)
(*   - great-circle distances are integers in metres,                      *)
(*   - a cell value is a record [nan, val]: NaN or an integer count.       *)
(***************************************************************************)
EXTENDS Integers, Sequences, FiniteSets, TLC

VARIABLES raster, op, args, out

vars == <<raster, op, args, out>>

-----------------------------------------------------------------------------
(* Bounds of the explored inputs *)

MaxLatIdx == 12
MaxLonIdx == 12
MaxRadiusMult == 4

-----------------------------------------------------------------------------
(* Fixed-point arithmetic *)

Scale == 100 * 100
UnitsPerDeg == 10 * 10

\* float division / multiplication rounded toward zero
TruncDiv(n, m) == IF n >= 0 THEN n \div m ELSE -((-n) \div m)

\* math.floor of a quotient, for a divisor of either sign
FloorDiv(n, m) == IF m > 0 THEN n \div m ELSE (-n) \div (-m)

Mul(x, y) == TruncDiv(x * y, Scale)

\* math.radians / np.radians: degrees (in units) -> radians (scaled)
Radians(u) == TruncDiv(u * 17453, 100 * UnitsPerDeg)

\* math.sin / np.sin on scaled radians (series to x^9)
Sin(x) ==
    LET x2 == Mul(x, x)
        t3 == TruncDiv(Mul(x, x2), 6)
        t5 == TruncDiv(Mul(t3, x2), 20)
        t7 == TruncDiv(Mul(t5, x2), 42)
        t9 == TruncDiv(Mul(t7, x2), 72)
    IN  x - t3 + t5 - t7 + t9

\* math.cos / np.cos on scaled radians (series to x^10)
Cos(x) ==
    LET x2 == Mul(x, x)
        t2 == TruncDiv(x2, 2)
        t4 == TruncDiv(Mul(t2, x2), 12)
        t6 == TruncDiv(Mul(t4, x2), 30)
        t8 == TruncDiv(Mul(t6, x2), 56)
        t10 == TruncDiv(Mul(t8, x2), 90)
    IN  Scale - t2 + t4 - t6 + t8 - t10

RECURSIVE SqrtIter(_, _, _)
SqrtIter(n, lo, hi) ==
    IF lo >= hi THEN lo
    ELSE LET mid == (lo + hi + 1) \div 2
         IN  IF mid * mid <= n THEN SqrtIter(n, mid, hi)
                               ELSE SqrtIter(n, lo, mid - 1)

\* np.sqrt of a value scaled by Scale^2; the root is scaled by Scale
Sqrt(n) == SqrtIter(n, 0, 2 * Scale)

\* np.arcsin on a scaled value (series to x^9)
Arcsin(x) ==
    LET x2 == Mul(x, x)
        x3 == Mul(x, x2)
        x5 == Mul(x3, x2)
        x7 == Mul(x5, x2)
        x9 == Mul(x7, x2)
    IN  x + TruncDiv(x3, 6) + TruncDiv(3 * x5, 40) + TruncDiv(15 * x7, 336)
          + TruncDiv(35 * x9, 1152)

-----------------------------------------------------------------------------
(* Rasters: width, height, the six affine coefficients                     *)
(* (x = c + col*a + row*b, y = f + col*d + row*e, in coordinate units) and *)
(* band 1 as rows of cell values. All rasters here are geographic          *)
(* (raster.crs.is_geographic), so xs/ys are longitudes/latitudes.          *)

NaN == [nan |-> TRUE, val |-> 0]
Num(n) == [nan |-> FALSE, val |-> n]

CellSize == 4 * UnitsPerDeg

\* north-up raster, lon 0..12, lat 48..60, with no-data (negative, NaN) cells
RasterNorth ==
    [name |-> "north", width |-> 3, height |-> 3,
     a |-> CellSize, b |-> 0, c |-> 0, d |-> 0, e |-> -CellSize, f |-> 60 * UnitsPerDeg,
     band |-> << <<Num(7),  Num(20),   NaN>>,
                 <<Num(-9), Num(1000), Num(0)>>,
                 <<Num(3),  NaN,       Num(50)>> >>]

\* the same extent stored bottom-up (e > 0): row 0 is the southernmost row
RasterSouth ==
    [name |-> "south", width |-> 3, height |-> 3,
     a |-> CellSize, b |-> 0, c |-> 0, d |-> 0, e |-> CellSize, f |-> 48 * UnitsPerDeg,
     band |-> << <<Num(3),  NaN,       Num(50)>>,
                 <<Num(-9), Num(1000), Num(0)>>,
                 <<Num(7),  Num(20),   NaN>> >>]

\* north-up raster with a single non-zero cell of value 1000 (row 1, col 1)
RasterSingle ==
    [name |-> "single", width |-> 3, height |-> 3,
     a |-> CellSize, b |-> 0, c |-> 0, d |-> 0, e |-> -CellSize, f |-> 60 * UnitsPerDeg,
     band |-> << <<Num(0), Num(0),    Num(0)>>,
                 <<Num(0), Num(1000), Num(0)>>,
                 <<Num(0), Num(0),    Num(0)>> >>]

Rasters == {RasterNorth, RasterSouth, RasterSingle}

\* query points: a 2-degree grid around the rasters (cell corners and centres)
GridStep == 2 * UnitsPerDeg
Lats == {42 * UnitsPerDeg + GridStep * i : i \in 0..MaxLatIdx}
Lons == {-6 * UnitsPerDeg + GridStep * i : i \in 0..MaxLonIdx}
Radii == {0, 1} \cup {200 * i : i \in 1..MaxRadiusMult}

-----------------------------------------------------------------------------
(* exposure.py: population_within_radius *)

KM_PER_DEG == 111
EARTH_R == 6371

Min(x, y) == IF x < y THEN x ELSE y
Max(x, y) == IF x > y THEN x ELSE y

\* the angular radius padded by one unit
RadiusDegPadded(radius_km) == TruncDiv(radius_km * UnitsPerDeg, 111) + 1

\* band > 0 (False for NaN)
Positive0(v) == ~v.nan /\ v.val > 0

\* radius_deg = float(radius_km) / 111.0
RadiusDeg(radius_km) == TruncDiv(radius_km * UnitsPerDeg, KM_PER_DEG)

\* minx, maxx, miny, maxy
BBox(lat, lon, radius_km) ==
    LET radius_deg == RadiusDeg(radius_km)
    IN  [minx |-> lon - radius_deg, maxx |-> lon + radius_deg,
         miny |-> lat - radius_deg, maxy |-> lat + radius_deg]

\* raster.index(x, y): the inverse affine transform, floored; <<row, col>>.
\* Finite coordinates never make it raise: out-of-extent points give
\* negative or beyond-extent indices.
Index(r, x, y) ==
    LET det == r.a * r.e - r.b * r.d
    IN  << FloorDiv(r.a * (y - r.f) - r.d * (x - r.c), det),
           FloorDiv(r.e * (x - r.c) - r.b * (y - r.f), det) >>

\* max(0, min(i, n - 1))
Clamp(i, n) == Max(0, Min(i, n - 1))

\* the interval left as clamped
CollapseMissing(lo, hi) == hi

\* if hi < lo: hi = lo
Collapse(lo, hi) == IF hi < lo THEN lo ELSE hi

\* the pixel indices of the two box corners, clamped, then made valid
Window(r, lat, lon, radius_km) ==
    LET box == BBox(lat, lon, radius_km)
        ul == Index(r, box.minx, box.maxy)
        lr == Index(r, box.maxx, box.miny)
        row_min == Clamp(ul[1], r.height)
        row_max == Clamp(lr[1], r.height)
        col_min == Clamp(ul[2], r.width)
        col_max == Clamp(lr[2], r.width)
    IN  [raw |-> [row_min |-> ul[1], row_max |-> lr[1],
                  col_min |-> ul[2], col_max |-> lr[2]],
         clamped |-> [row_min |-> row_min, row_max |-> row_max,
                      col_min |-> col_min, col_max |-> col_max],
         row_min |-> row_min, row_max |-> Collapse(row_min, row_max),
         col_min |-> col_min, col_max |-> Collapse(col_min, col_max)]

\* win = ((row_min, row_max + 1), (col_min, col_max + 1)): the index range read
WinRange(lo, hi) == lo .. ((hi + 1) - 1)

\* raster.read(1, window=win): the cells of the window, by absolute <<row, col>>
ReadWindow(r, w) ==
    [rc \in WinRange(w.row_min, w.row_max) \X WinRange(w.col_min, w.col_max)
        |-> r.band[rc[1] + 1][rc[2] + 1]]

\* xs = wt.c + cols2d * wt.a + rows2d * wt.b with wt the window transform
\* (wt.c = c + col_min*a + row_min*b) and i, j the indices inside the window
CellX(r, w, i, j) == (r.c + w.col_min * r.a + w.row_min * r.b) + j * r.a + i * r.b

\* ys = wt.f + cols2d * wt.d + rows2d * wt.e
CellY(r, w, i, j) == (r.f + w.col_min * r.d + w.row_min * r.e) + j * r.d + i * r.e

\* vectorized haversine, in metres
DistM(lat, lon, lats, lons) ==
    LET phi1 == Radians(lat)
        phi2 == Radians(lats)
        dphi == Radians(lats - lat)
        dlambda == Radians(lons - lon)
        sp == Sin(TruncDiv(dphi, 2))
        sl == Sin(TruncDiv(dlambda, 2))
        \* a, scaled by Scale^2
        a == sp * sp + Mul(Mul(Cos(phi1), Cos(phi2)), sl) * sl
    IN  TruncDiv(2 * EARTH_R * Arcsin(Sqrt(a)), Scale \div 1000)

\* the mask without its distance test
ValidNoDistance(v, dist_m, radius_km) ==
    /\ (~v.nan /\ v.val > 0)
    /\ ~v.nan

\* the mask without its test band > 0
ValidNoPositive(v, dist_m, radius_km) ==
    /\ ~v.nan
    /\ dist_m <= radius_km * 1000

\* (band > 0) & (~np.isnan(band)) & (dist_km <= float(radius_km))
\* (a comparison with NaN is False)
Valid(v, dist_m, radius_km) ==
    /\ (~v.nan /\ v.val > 0)
    /\ ~v.nan
    /\ dist_m <= radius_km * 1000

RECURSIVE NanSum(_, _)
\* np.nansum(band[valid]): NaN counts as zero
NanSum(band, cells) ==
    IF cells = {} THEN 0
    ELSE LET rc == CHOOSE x \in cells : TRUE
         IN  (IF band[rc].nan THEN 0 ELSE band[rc].val) + NanSum(band, cells \ {rc})

PopulationWithinRadius(r, lat, lon, radius_km) ==
    LET w == Window(r, lat, lon, radius_km)
        band == ReadWindow(r, w)
        dist == [rc \in DOMAIN band |->
                    DistM(lat, lon,
                          CellY(r, w, rc[1] - w.row_min, rc[2] - w.col_min),
                          CellX(r, w, rc[1] - w.row_min, rc[2] - w.col_min))]
        valid == {rc \in DOMAIN band : Valid(band[rc], dist[rc], radius_km)}
    IN  [kind |-> "value", value |-> NanSum(band, valid),
         win |-> w, band |-> band, dist |-> dist, valid |-> valid]

\* A coordinate that is not finite: which of lat, lon is NaN or infinite
NonFiniteKinds == {"lat_nan", "lon_nan", "lat_inf", "lon_inf"}

\* raster.index on a box corner with a NaN or infinite coordinate, by build
\* of the raster library: math.floor raises (ValueError for NaN,
\* OverflowError for an infinity), or the integer cast of the floored value
\* gives some indices without raising
IndexNonFiniteOutcomes == {"raises", "indices"}

\* the indices an integer cast of NaN or an infinity may give
CastIndices == {-1, 0, 3}

\* population_within_radius with a non-finite lat or lon. minx..maxy are
\* computed outside the try and do not raise. Inside the try, an exception
\* of raster.index, whatever its reason, is caught by "except Exception" and
\* 0.0 is returned. Without an exception the indices are clamped and the
\* window is read; every distance is NaN, dist_km <= radius_km is False for
\* every cell, and the sum over the empty selection is 0.0.
PopulationWithinRadiusNonFinite(r, index_outcome, row, col) ==
    IF index_outcome = "raises"
    THEN [kind |-> "value", value |-> 0, via |-> "except"]
    ELSE LET row_min == Clamp(row, r.height)
             col_min == Clamp(col, r.width)
             w == [row_min |-> row_min, row_max |-> Collapse(row_min, row_min),
                   col_min |-> col_min, col_max |-> Collapse(col_min, col_min)]
             band == ReadWindow(r, w)
             \* dist_km <= float(radius_km) with dist_km NaN
             valid == {rc \in DOMAIN band : Positive0(band[rc]) /\ ~band[rc].nan /\ FALSE}
         IN  [kind |-> "value", value |-> NanSum(band, valid), via |-> "mask"]

-----------------------------------------------------------------------------
(* impact.py *)

PI == 31416
DENSITY_KG_M3 == 3000

\* 0.5 * mass_kg * (velocity_km_s * 1000)**2, in units of 1e4 J
KineticEnergyJoules(mass_kg, velocity_km_s) ==
    TruncDiv(mass_kg * velocity_km_s * velocity_km_s * ((1000 * 1000) \div Scale), 2)

\* 4/3 * math.pi * (diameter_m/2)**3 * density_kg_m3, in kg
SphereMass(diameter_m, density_kg_m3) ==
    TruncDiv(TruncDiv(4 * PI * diameter_m * diameter_m * diameter_m, 3 * 8)
                * density_kg_m3, Scale)

\* energy**(1/4) for energy in units of 1e4 J; the root is in units of 10.
\* Python gives a complex number for a negative base and 0.0 for 0.
PowQuarter(energy) ==
    IF energy < 0 THEN [kind |-> "complex"]
    ELSE [kind |-> "value", value |-> Sqrt(Sqrt(energy))]

\* crater_d = 0.01 * energy**(1/4) / 1000, in km scaled by Scale.
\* No argument is validated and nothing is raised.
CraterDiameterKm(diameter_m, velocity_km_s) ==
    LET energy == KineticEnergyJoules(SphereMass(diameter_m, DENSITY_KG_M3),
                                      velocity_km_s)
        root == PowQuarter(energy)
    IN  IF root.kind = "complex" THEN root
        ELSE [kind |-> "value", value |-> TruncDiv(root.value * 10 * Scale, 100 * 1000)]

\* crater_km * 2.0
BlastRadiusKm(crater_km) == crater_km * 2

\* a scaling by 3.0
ThermalTimesThree(crater_km) == crater_km * 3

\* crater_km * 4.0
ThermalRadiationRadiusKm(crater_km) == crater_km * 4

-----------------------------------------------------------------------------
(* orbital.py *)

HalfTurn == 180 * UnitsPerDeg
ENTRY_ALTITUDE_KM == 120
AZIMUTH == 180
SECONDS_PER_DAY == 86400
\* metres per coordinate unit along a meridian (6371 km * pi / 180 per degree)
MetresPerUnit == (1112 * 100) \div UnitsPerDeg

\* math.sin(math.radians(angle)) for an angle in units. math.radians(180*k)
\* is the double next to k*pi, not k*pi, so for k # 0 the sine is a tiny
\* non-zero number (1.22e-16 at 180, -2.45e-16 at 360, 3.67e-16 at 540,
\* -1.22e-16 at -180, 2.45e-16 at -360): one unit of the model's resolution
\* with that sign. Elsewhere the angle is folded into the first quadrant.
MathSinDeg(angle) ==
    LET m == angle % (2 * HalfTurn)
        k == angle \div HalfTurn
    IN  IF angle % HalfTurn = 0
        THEN IF angle = 0 THEN 0
             ELSE IF (k % 2 = 1) = (k > 0) THEN 1 ELSE -1
        ELSE IF 2 * m <= HalfTurn THEN Sin(Radians(m))
        ELSE IF m <= HalfTurn THEN Sin(Radians(HalfTurn - m))
        ELSE IF 2 * m <= 3 * HalfTurn THEN -Sin(Radians(m - HalfTurn))
        ELSE -Sin(Radians(2 * HalfTurn - m))

\* math.cos(math.radians(angle)) for an angle in units
MathCosDeg(angle) ==
    LET m == angle % (2 * HalfTurn)
    IN  IF 2 * m <= HalfTurn THEN Cos(Radians(m))
        ELSE IF m <= HalfTurn THEN -Cos(Radians(HalfTurn - m))
        ELSE IF 2 * m <= 3 * HalfTurn THEN -Cos(Radians(m - HalfTurn))
        ELSE Cos(Radians(2 * HalfTurn - m))

\* longitude folded into (-180, 180]
WrapLon(lon) ==
    LET m == (lon + HalfTurn) % (2 * HalfTurn)
    IN  IF m = 0 THEN HalfTurn ELSE m - HalfTurn

\* geod.fwd(lon, lat, azimuth, dist_m) for the azimuths of a meridian
\* (180: south, 0: north), on a sphere: the point dist_m metres along the
\* meridian, a negative distance going the opposite way; past a pole the
\* track continues on the opposite meridian. Returns [lat, lon].
GeodFwd(lon, lat, azimuth, dist_m) ==
    LET south == IF azimuth = 180 THEN dist_m ELSE -dist_m
        \* angle from the north pole along the track
        theta == ((HalfTurn \div 2 - lat) + TruncDiv(south, MetresPerUnit))
                    % (2 * HalfTurn)
    IN  IF theta <= HalfTurn
        THEN [lat |-> HalfTurn \div 2 - theta, lon |-> lon]
        ELSE [lat |-> theta - (3 * HalfTurn) \div 2, lon |-> WrapLon(lon + HalfTurn)]

\* predict_impact_point; velocities are scaled km/s, time is in seconds.
\* Where the vertical velocity is only the rounding residue of the sine, the
\* code goes on with a time to impact of about 1e18 s; the model goes on too,
\* with the largest time its resolution gives.
PredictImpactPoint(lat_entry, lon_entry, velocity_km_s, flight_path_angle_deg) ==
    LET vertical_velocity == velocity_km_s * MathSinDeg(flight_path_angle_deg)
        time_to_impact == TruncDiv(ENTRY_ALTITUDE_KM * Scale, vertical_velocity)
        horizontal_velocity == velocity_km_s * MathCosDeg(flight_path_angle_deg)
        downrange_km == TruncDiv(TruncDiv(horizontal_velocity, 100) * time_to_impact, 100)
        p == GeodFwd(lon_entry, lat_entry, AZIMUTH, downrange_km * 1000)
    IN  IF vertical_velocity <= 0
        THEN [kind |-> "raise", error |-> "ValueError"]
        ELSE [kind |-> "value", lat |-> p.lat, lon |-> p.lon,
              downrange_km |-> downrange_km]

\* downrange_shift_km = displacement_km * scale_factor * 1000, scaled by Scale:
\* displacement_km = delta_v_m_s * seconds / 1000 is kept in units of 0.1 km
\* and scale_factor = delta_v_m_s / (original_velocity_km_s * 1000) in 1e-6
DownrangeShiftKm(delta_v_m_s, lead_time_days, original_velocity_km_s) ==
    LET seconds == lead_time_days * SECONDS_PER_DAY
        displacement_km == TruncDiv(delta_v_m_s * seconds, 100)
        scale_factor == TruncDiv(delta_v_m_s * 1000 * 1000, original_velocity_km_s * 1000)
    IN  displacement_km * scale_factor

\* the distance handed to geod.fwd: -downrange_shift_km, read as metres
DeflectionDistance(downrange_shift_km) == -TruncDiv(downrange_shift_km, Scale)

\* simulate_deflection_effect
SimulateDeflectionEffect(lat_impact, lon_impact, delta_v_m_s, lead_time_days, original_velocity_km_s) ==
    LET downrange_shift_km ==
            DownrangeShiftKm(delta_v_m_s, lead_time_days, original_velocity_km_s)
        p == GeodFwd(lon_impact, lat_impact, AZIMUTH,
                     DeflectionDistance(downrange_shift_km))
    IN  [kind |-> "value", lat |-> p.lat, lon |-> p.lon,
         dist_m |-> DeflectionDistance(downrange_shift_km)]

-----------------------------------------------------------------------------
(* Inputs of the physics and orbital functions *)

MaxDiameter == 3
MaxVelocity == 3
MaxCrater == 20
MaxAngleIdx == 18
MaxDeltaV == 3
MaxLeadIdx == 2

Diameters == -2..MaxDiameter
Velocities == -2..MaxVelocity
Craters == 0..MaxCrater
Angles == {30 * UnitsPerDeg * i : i \in -12..MaxAngleIdx}
EntryLats == {10 * UnitsPerDeg, -80 * UnitsPerDeg}
EntryLons == {80 * UnitsPerDeg}
DeltaVs == 0..MaxDeltaV
LeadDays == {30 * i : i \in 0..MaxLeadIdx}

-----------------------------------------------------------------------------
(* The state machine: the raster is opened once; a call on the public      *)
(* surface is pending with its arguments, then returns its result.         *)
(* args.nonfinite names the coordinate of a population query that is NaN   *)
(* or infinite ("none": both are finite); the number held for that         *)
(* coordinate is then not used.                                            *)

Pending == [kind |-> "pending"]

Init ==
    /\ raster \in Rasters
    /\ out = Pending
    /\ \/ /\ op = "population_within_radius"
          /\ args \in [lat : Lats, lon : Lons, radius_km : Radii,
                       nonfinite : {"none"}]
                   \cup [lat : {54 * UnitsPerDeg}, lon : {6 * UnitsPerDeg},
                         radius_km : Radii, nonfinite : NonFiniteKinds]
       \/ /\ op = "crater_diameter_km"
          /\ args \in [diameter_m : Diameters, velocity_km_s : Velocities]
       \/ /\ op = "blast_radius_km"
          /\ args \in [crater_km : Craters]
       \/ /\ op = "thermal_radiation_radius_km"
          /\ args \in [crater_km : Craters]
       \/ /\ op = "predict_impact_point"
          /\ args \in [lat_entry : EntryLats, lon_entry : EntryLons,
                       velocity_km_s : 1..MaxVelocity,
                       flight_path_angle_deg : Angles]
       \/ /\ op = "simulate_deflection_effect"
          /\ args \in [lat_impact : EntryLats, lon_impact : EntryLons,
                       delta_v_m_s : DeltaVs, lead_time_days : LeadDays,
                       original_velocity_km_s : 1..MaxVelocity]

CallPopulationWithinRadius ==
    /\ op = "population_within_radius" /\ out = Pending
    /\ IF args.nonfinite = "none"
       THEN out' = PopulationWithinRadius(raster, args.lat, args.lon, args.radius_km)
       ELSE \E index_outcome \in IndexNonFiniteOutcomes, row \in CastIndices,
               col \in CastIndices :
                out' = PopulationWithinRadiusNonFinite(raster, index_outcome, row, col)
    /\ UNCHANGED <<raster, op, args>>

CallCraterDiameterKm ==
    /\ op = "crater_diameter_km" /\ out = Pending
    /\ out' = CraterDiameterKm(args.diameter_m, args.velocity_km_s)
    /\ UNCHANGED <<raster, op, args>>

CallBlastRadiusKm ==
    /\ op = "blast_radius_km" /\ out = Pending
    /\ out' = [kind |-> "value", value |-> BlastRadiusKm(args.crater_km)]
    /\ UNCHANGED <<raster, op, args>>

CallThermalRadiationRadiusKm ==
    /\ op = "thermal_radiation_radius_km" /\ out = Pending
    /\ out' = [kind |-> "value", value |-> ThermalRadiationRadiusKm(args.crater_km)]
    /\ UNCHANGED <<raster, op, args>>

CallPredictImpactPoint ==
    /\ op = "predict_impact_point" /\ out = Pending
    /\ out' = PredictImpactPoint(args.lat_entry, args.lon_entry, args.velocity_km_s,
                                 args.flight_path_angle_deg)
    /\ UNCHANGED <<raster, op, args>>

CallSimulateDeflectionEffect ==
    /\ op = "simulate_deflection_effect" /\ out = Pending
    /\ out' = SimulateDeflectionEffect(args.lat_impact, args.lon_impact,
                                       args.delta_v_m_s, args.lead_time_days,
                                       args.original_velocity_km_s)
    /\ UNCHANGED <<raster, op, args>>

Next ==
    \/ CallPopulationWithinRadius
    \/ CallCraterDiameterKm
    \/ CallBlastRadiusKm
    \/ CallThermalRadiationRadiusKm
    \/ CallPredictImpactPoint
    \/ CallSimulateDeflectionEffect

Spec == Init /\ [][Next]_vars

-----------------------------------------------------------------------------
(* Vocabulary of the properties *)

Returned(f) == op = f /\ out.kind # "pending"

\* a population query with finite coordinates has returned
PopReturned == Returned("population_within_radius") /\ args.nonfinite = "none"

SetMin(S) == CHOOSE x \in S : \A y \in S : x <= y
SetMax(S) == CHOOSE x \in S : \A y \in S : x >= y

\* the coverage of a raster: the hull of the four outer corners of the grid
Extent(r) ==
    LET xs == {r.c + i * r.a + j * r.b : i \in {0, r.width}, j \in {0, r.height}}
        ys == {r.f + i * r.d + j * r.e : i \in {0, r.width}, j \in {0, r.height}}
    IN  [minx |-> SetMin(xs), maxx |-> SetMax(xs), miny |-> SetMin(ys), maxy |-> SetMax(ys)]

CenterOutside(r, lat, lon) ==
    LET ext == Extent(r)
    IN  lon < ext.minx \/ lon > ext.maxx \/ lat < ext.miny \/ lat > ext.maxy

BoxOutside(r, lat, lon, radius_km) ==
    LET ext == Extent(r)
        box == BBox(lat, lon, radius_km)
    IN  \/ box.maxx < ext.minx \/ box.minx > ext.maxx
        \/ box.maxy < ext.miny \/ box.miny > ext.maxy

AllCells(r) == (0 .. r.height - 1) \X (0 .. r.width - 1)

CellValue(r, rc) == r.band[rc[1] + 1][rc[2] + 1]

Positive(v) == ~v.nan /\ v.val > 0

\* the position the code measures a cell at: the image of its integer
\* indices under the raster's transform
CellPosX(r, rc) == r.c + rc[2] * r.a + rc[1] * r.b
CellPosY(r, rc) == r.f + rc[2] * r.d + rc[1] * r.e

\* the centre of a cell: the image of its indices plus one half, doubled
CellCentreX2(r, rc) == 2 * r.c + (2 * rc[2] + 1) * r.a + (2 * rc[1] + 1) * r.b
CellCentreY2(r, rc) == 2 * r.f + (2 * rc[2] + 1) * r.d + (2 * rc[1] + 1) * r.e

\* the cells of the window a result reports
WindowCells(w) == (w.row_min .. w.row_max) \X (w.col_min .. w.col_max)

RECURSIVE SumOf(_, _)
SumOf(f, S) ==
    IF S = {} THEN 0
    ELSE LET x == CHOOSE y \in S : TRUE IN f[x] + SumOf(f, S \ {x})

-----------------------------------------------------------------------------
(* C1 *)

-----------------------------------------------------------------------------
(* C2 *)

\* C2: for a fixed raster and centre, the result for a radius r1 is at most
\* the result for any radius r2 >= r1.
C2_Monotone ==
    PopReturned =>
        \A r1 \in Radii :
            r1 <= args.radius_km =>
                PopulationWithinRadius(raster, args.lat, args.lon, r1).value <= out.value

-----------------------------------------------------------------------------
(* C3 *)

\* C3: the result is the sum, over the cells of the window read, of the
\* values that are > 0, not NaN and within radius_km; it is never negative
\* and it is 0 when no cell passes.
C3_MaskedSum ==
    PopReturned =>
        LET cells == WindowCells(out.win)
            pass == {rc \in cells :
                        /\ ~CellValue(raster, rc).nan
                        /\ CellValue(raster, rc).val > 0
                        /\ out.dist[rc] <= args.radius_km * 1000}
            vals == [rc \in cells |-> CellValue(raster, rc).val]
        IN  /\ out.kind = "value"
            /\ out.value = SumOf(vals, pass)
            /\ out.value >= 0
            /\ (pass = {} => out.value = 0)

\* a window holding a negative cell and a NaN cell inside the radius, and a
\* positive result
C3_Witness ==
    /\ PopReturned
    /\ out.value > 0
    /\ \E rc \in DOMAIN out.band :
            out.band[rc].val < 0 /\ out.dist[rc] <= args.radius_km * 1000
    /\ \E rc \in DOMAIN out.band :
            out.band[rc].nan /\ out.dist[rc] <= args.radius_km * 1000

-----------------------------------------------------------------------------
(* C4 *)

\* C4: on a raster whose only non-zero cell holds 1000, a query of radius
\* 1 km centred exactly on the centre of that cell returns 1000.
C4_CentreCellCounted ==
    (PopReturned /\ args.radius_km = 1) =>
        \A rc \in AllCells(raster) :
            (/\ CellValue(raster, rc) = Num(1000)
             /\ \A o \in AllCells(raster) \ {rc} : CellValue(raster, o) = Num(0)
             /\ 2 * args.lon = CellCentreX2(raster, rc)
             /\ 2 * args.lat = CellCentreY2(raster, rc))
                => out.value = 1000

-----------------------------------------------------------------------------
(* C5 *)

\* C5: predict_impact_point raises for every flight_path_angle_deg <= 0 and
\* every flight_path_angle_deg >= 180, and returns no point.
C5_NonDownwardRaises ==
    (/\ Returned("predict_impact_point")
     /\ \/ args.flight_path_angle_deg <= 0
        \/ args.flight_path_angle_deg >= HalfTurn)
        => out.kind = "raise"

-----------------------------------------------------------------------------
(* C6 *)

\* C6: crater_diameter_km raises whenever diameter_m <= 0 or
\* velocity_km_s <= 0, and returns no value for such inputs.
C6_NonPositiveRaises ==
    (/\ Returned("crater_diameter_km")
     /\ (args.diameter_m <= 0 \/ args.velocity_km_s <= 0))
        => out.kind = "raise"

-----------------------------------------------------------------------------
(* C7 *)

\* C7: for every c >= 0, blast_radius_km(c) = 2c and
\* thermal_radiation_radius_km(c) = 4c = 2 * blast_radius_km(c), so
\* thermal >= blast >= c.
C7_LinearScalings ==
    /\ Returned("blast_radius_km") =>
            /\ out.value = 2 * args.crater_km
            /\ out.value >= args.crater_km
    /\ Returned("thermal_radiation_radius_km") =>
            /\ out.value = 4 * args.crater_km
            /\ out.value = 2 * BlastRadiusKm(args.crater_km)
            /\ out.value >= BlastRadiusKm(args.crater_km)
            /\ BlastRadiusKm(args.crater_km) >= args.crater_km

\* a thermal radius returned for a crater of positive size
C7_Witness ==
    /\ Returned("thermal_radiation_radius_km")
    /\ args.crater_km > 0
    /\ out.value = 4 * args.crater_km

-----------------------------------------------------------------------------
(* C8 *)

\* C8: with radius_km = 0 the window read is exactly one cell, the cell
\* covering the point or the edge cell it is clamped to, and the result is 0
\* or the value of that cell.
C8_ZeroRadiusOneCell ==
    (PopReturned /\ args.radius_km = 0) =>
        LET at == Index(raster, args.lon, args.lat)
            cell == <<Clamp(at[1], raster.height), Clamp(at[2], raster.width)>>
        IN  /\ out.win.row_min = out.win.row_max
            /\ out.win.col_min = out.win.col_max
            /\ DOMAIN out.band = {cell}
            /\ \/ out.value = 0
               \/ Positive(CellValue(raster, cell))
                    /\ out.value = CellValue(raster, cell).val

\* a query of radius 0 that returns the value of its cell
C8_Witness ==
    /\ PopReturned
    /\ args.radius_km = 0
    /\ out.value > 0

-----------------------------------------------------------------------------
(* C9 *)

\* C9: simulate_deflection_effect moves the impact point along azimuth 180
\* (due south), as predict_impact_point does, by
\* delta_v_m_s * lead_time_seconds * (delta_v_m_s / original_velocity_m_s)
\* metres.
C9_ShiftedSouth ==
    Returned("simulate_deflection_effect") =>
        LET shift_m == TruncDiv(DownrangeShiftKm(args.delta_v_m_s, args.lead_time_days,
                                                 args.original_velocity_km_s), Scale)
            p == GeodFwd(args.lon_impact, args.lat_impact, 180, shift_m)
        IN  out.lat = p.lat /\ out.lon = p.lon

-----------------------------------------------------------------------------
(* C10 *)

\* C10: the window read satisfies 0 <= row_min <= row_max <= height - 1 and
\* 0 <= col_min <= col_max <= width - 1 whatever indices the inverse
\* transform returned; it is never empty, and an inverted interval is a
\* single row or column.
C10_WindowInvariant ==
    PopReturned =>
        LET w == out.win
        IN  /\ 0 <= w.row_min /\ w.row_min <= w.row_max /\ w.row_max <= raster.height - 1
            /\ 0 <= w.col_min /\ w.col_min <= w.col_max /\ w.col_max <= raster.width - 1
            /\ Cardinality(DOMAIN out.band)
                    = (w.row_max - w.row_min + 1) * (w.col_max - w.col_min + 1)
            /\ Cardinality(DOMAIN out.band) >= 1
            /\ (w.raw.row_max < w.raw.row_min => w.row_min = w.row_max)
            /\ (w.raw.col_max < w.raw.col_min => w.col_min = w.col_max)

\* inverted row indices, a negative column index and a column index beyond
\* the width, all in one query
C10_Witness ==
    /\ PopReturned
    /\ out.win.raw.row_max < out.win.raw.row_min
    /\ out.win.clamped.row_max < out.win.clamped.row_min
    /\ out.win.raw.col_min < 0
    /\ out.win.raw.col_max > raster.width - 1

-----------------------------------------------------------------------------
(* C11 *)

\* the cells of the whole raster that pass the mask
PassingCells(r, lat, lon, radius_km) ==
    {rc \in AllCells(r) :
        /\ Positive(CellValue(r, rc))
        /\ DistM(lat, lon, CellPosY(r, rc), CellPosX(r, rc)) <= radius_km * 1000}

\* C11: the box of half-width radius_km/111 degrees never under-covers the
\* circle: every cell within radius_km of the centre is in the window, so
\* the result is the sum over all the cells of the raster that pass the mask.
C11_BoxCoversCircle ==
    PopReturned =>
        LET pass == PassingCells(raster, args.lat, args.lon, args.radius_km)
            vals == [rc \in AllCells(raster) |-> CellValue(raster, rc).val]
        IN  /\ pass \subseteq WindowCells(out.win)
            /\ out.value = SumOf(vals, pass)

-----------------------------------------------------------------------------
(* C12 *)

\* C12: only a bounds miss is turned into 0.0; any other failure, such as a
\* non-finite coordinate or an exception of the pixel-index lookup raised for
\* another reason, propagates to the caller and is never reported as 0.0.
C12_OtherFailuresPropagate ==
    (Returned("population_within_radius") /\ args.nonfinite # "none")
        => out.kind = "raise"

====
